---- MODULE Spec2Model ----
(***************************************************************************)
(* Model of stockfish-server/app.py: a Flask application that serves one   *)
(* process-wide Stockfish engine session over HTTP.  Each request handler  *)
(* is split into steps at its accesses to the session's shared fields      *)
(* (configured depth, loaded position, skill level): a step is one such    *)
(* access together with the handler-local code around it.  Requests are    *)
(* handled by the threads of Flask's development server (app.run), so the  *)
(* steps of different requests interleave freely.                          *)
(***************************************************************************)
EXTENDS Integers, Sequences, FiniteSets, TLC

(***************************************************************************)
(* Bounds of the model.                                                    *)
(***************************************************************************)
\* number of requests the server handles at the same time (worker threads)
NumReq == 2

\* largest centipawn magnitude of the dense range of evaluations
CpBound == 2100

\* largest mate distance of the evaluations
MateBound == 5

Req == 1..NumReq

(***************************************************************************)
(* Python / JSON values.  A value is a record [kind, num, txt]:            *)
(*   absent : the key is not in the JSON object                            *)
(*   none   : JSON null / Python None                                      *)
(*   int    : num is the integer                                           *)
(*   float  : num is the value in units of 1/FloatScale                    *)
(*   str    : txt is the sequence of the string's characters               *)
(*   list   : a JSON array of num elements                                 *)
(*   bool   : num is 1 for True and 0 for False                            *)
(***************************************************************************)
FloatScale == 100 * 100

Absent == [kind |-> "absent", num |-> 0, txt |-> <<>>]
PyNone == [kind |-> "none", num |-> 0, txt |-> <<>>]
PyInt(n) == [kind |-> "int", num |-> n, txt |-> <<>>]
PyFloat(n) == [kind |-> "float", num |-> n, txt |-> <<>>]
PyStr(s) == [kind |-> "str", num |-> 0, txt |-> s]
PyList(n) == [kind |-> "list", num |-> n, txt |-> <<>>]
PyBool(b) == [kind |-> "bool", num |-> IF b THEN 1 ELSE 0, txt |-> <<>>]

\* dict.get(key): a missing key reads as None
Get(body, key) == IF body[key].kind = "absent" THEN PyNone ELSE body[key]

\* dict.get(key, default)
GetDefault(body, key, default) ==
    IF body[key].kind = "absent" THEN default ELSE body[key]

\* Python truth value of v, as tested by `not v`
Truthy(v) ==
    CASE v.kind \in {"absent", "none"} -> FALSE
      [] v.kind \in {"int", "float", "list", "bool"} -> v.num /= 0
      [] v.kind = "str" -> Len(v.txt) > 0

\* isinstance(v, str)
IsStr(v) == v.kind = "str"

(***************************************************************************)
(* int(v), the Python built-in.  The result is [exc, val]: exc = "" and    *)
(* val the integer, or exc the name of the exception raised.               *)
(***************************************************************************)
Digits == <<"0", "1", "2", "3", "4", "5", "6", "7", "8", "9">>

IsDigit(c) == \E i \in 1..10 : Digits[i] = c

DigitVal(c) == (CHOOSE i \in 1..10 : Digits[i] = c) - 1

RECURSIVE StripLeft(_)
StripLeft(s) ==
    IF s /= <<>> /\ Head(s) = " " THEN StripLeft(Tail(s)) ELSE s

RECURSIVE StripRight(_)
StripRight(s) ==
    IF s /= <<>> /\ s[Len(s)] = " "
    THEN StripRight(SubSeq(s, 1, Len(s) - 1))
    ELSE s

RECURSIVE AllDigits(_)
AllDigits(s) == s = <<>> \/ (IsDigit(Head(s)) /\ AllDigits(Tail(s)))

RECURSIVE DigitsValue(_, _)
DigitsValue(s, acc) ==
    IF s = <<>> THEN acc ELSE DigitsValue(Tail(s), 10 * acc + DigitVal(Head(s)))

\* int(str): surrounding blanks stripped, an optional sign, then digits only
IntOfStr(s) ==
    LET t == StripRight(StripLeft(s))
        signed == t /= <<>> /\ Head(t) \in {"+", "-"}
        body == IF signed THEN Tail(t) ELSE t
    IN  IF body = <<>> \/ ~AllDigits(body)
        THEN [exc |-> "ValueError", val |-> 0]
        ELSE [exc |-> "",
              val |-> IF signed /\ Head(t) = "-"
                      THEN 0 - DigitsValue(body, 0)
                      ELSE DigitsValue(body, 0)]

\* int(float): truncation toward zero
IntOfFloat(n) ==
    IF n >= 0 THEN n \div FloatScale ELSE 0 - ((0 - n) \div FloatScale)

int(v) ==
    CASE v.kind \in {"int", "bool"} -> [exc |-> "", val |-> v.num]
      [] v.kind = "float" -> [exc |-> "", val |-> IntOfFloat(v.num)]
      [] v.kind = "str" -> IntOfStr(v.txt)
      [] OTHER -> [exc |-> "TypeError", val |-> 0]

(***************************************************************************)
(* math.exp in fixed point.  Arguments and results are in units of         *)
(* 1/FloatScale; the result is within 1/FloatScale (relative) of e^x for   *)
(* |x| < 11.  Beyond that the value is held at e^11 (and its reciprocal),  *)
(* where 1 / (1 + e^x) is 0 or 1 to within 1/FloatScale; this keeps every  *)
(* number within 32 bits.  math.exp raises OverflowError above             *)
(* ExpOverflowAt.                                                          *)
(***************************************************************************)
\* e^n * FloatScale for n = 0..11
EPow == <<10000, 27183, 73891, 200855, 545982, 1484132, 4034288, 10966332,
          29809580, 81030839, 220264658, 598741417>>

\* largest x for which math.exp(x) is a finite double (709.78...)
ExpOverflowAt == 709

\* a / b rounded to the nearest integer, for a >= 0 and b > 0
RDiv(a, b) == (2 * a + b) \div (2 * b)

RECURSIVE TaylorSum(_, _, _, _)
TaylorSum(f, k, term, acc) ==
    IF k > 9 THEN acc
    ELSE LET t == RDiv(term * f, k * FloatScale)
         IN  TaylorSum(f, k + 1, t, acc + t)

\* e^f for 0 <= f < 1
ExpFrac(f) == TaylorSum(f, 1, FloatScale, FloatScale)

\* a * b / FloatScale without leaving 32 bits
MulFix(a, b) ==
    (a \div FloatScale) * b + RDiv((a % FloatScale) * b, FloatScale)

ExpPos(x) ==
    LET n == x \div FloatScale
    IN  IF n >= Len(EPow) - 1 THEN EPow[Len(EPow)]
        ELSE MulFix(EPow[n + 1], ExpFrac(x - n * FloatScale))

MathExp(x) ==
    IF x > ExpOverflowAt * FloatScale
    THEN [exc |-> "OverflowError", val |-> 0]
    ELSE [exc |-> "",
          val |-> IF x >= 0 THEN ExpPos(x)
                  ELSE RDiv(FloatScale * FloatScale, ExpPos(0 - x))]

Max(a, b) == IF a >= b THEN a ELSE b

Min(a, b) == IF a <= b THEN a ELSE b

\* cp_to_win_prob_exp without the clamp of line 29
cp_to_win_prob_exp_unclamped(cp) ==
    MathExp((0 - 4 * cp) * (FloatScale \div 1000))

\* lines 29-30: math.exp(-0.004 * clamped_cp), [exc, val]
cp_to_win_prob_exp(cp) ==
    LET clamped_cp == Max(-2000, Min(2000, cp))
    IN  MathExp((0 - 4 * clamped_cp) * (FloatScale \div 1000))

\* cp_to_win_prob with math.exp(0.004 * clamped_cp), the sign lost
cp_to_win_prob_sign_lost(cp) ==
    LET e == MathExp(4 * Max(-2000, Min(2000, cp)) * (FloatScale \div 1000))
    IN  IF e.exc = "OverflowError"
        THEN (IF cp > 0 THEN FloatScale ELSE 0)
        ELSE RDiv(FloatScale * FloatScale, FloatScale + e.val)

\* cp_to_win_prob(cp): the result in units of 1/FloatScale
cp_to_win_prob(cp) ==
    LET e == cp_to_win_prob_exp(cp)
    IN  IF e.exc = "OverflowError"
        THEN (IF cp > 0 THEN FloatScale ELSE 0)
        ELSE RDiv(FloatScale * FloatScale, FloatScale + e.val)

(***************************************************************************)
(* Program constants.                                                      *)
(***************************************************************************)
\* Stockfish(path=STOCKFISH_PATH, depth=15, ...)
DefaultDepth == 15

\* MAX_ANALYSIS_DEPTH = 15
MAX_ANALYSIS_DEPTH == 15

\* `if not 0 <= level <= 20`
MaxSkillLevel == 20

\* the skill level of a fresh engine: full strength
DefaultSkill == MaxSkillLevel

(***************************************************************************)
(* The engine collaborator.  It is opaque: what a query returns is a       *)
(* nondeterministic choice among these values, and every call that talks   *)
(* to the engine process may instead raise.  is_fen_valid reads and writes *)
(* none of the session's fields.                                           *)
(***************************************************************************)
StartPos == <<"startpos">>

Fen1 == <<"f", "1">>

Fen2 == <<"f", "2">>

BadFen == <<"x">>

\* the strings is_fen_valid accepts
ValidFens == {Fen1, Fen2}

NoEval == [type |-> "", value |-> 0]

\* what get_evaluation may return: {"type": ..., "value": ...}
Evaluations ==
    { [type |-> "cp", value |-> -120],
      [type |-> "mate", value |-> 2],
      [type |-> "mate", value |-> 0],
      [type |-> "lowerbound", value |-> 10] }

\* The evaluations /win_chance is given when its transform is examined
\* (WinChance): every centipawn value up to CpBound, values far outside the
\* clamp, and mate values up to MateBound.
FarCp == { -1000000, -200000, -30000, 30000, 200000, 1000000 }

AnyEvaluations ==
    Evaluations
    \cup { [type |-> "cp", value |-> v] : v \in (-CpBound..CpBound) \cup FarCp }
    \cup { [type |-> "mate", value |-> v] : v \in -MateBound..MateBound }

\* what get_best_move may return: a move, or None
BestMoves == {PyStr(<<"e2e4">>), PyNone}

Outcomes == {"ok", "raise"}

(***************************************************************************)
(* Request bodies (JSON objects).                                          *)
(***************************************************************************)
Body(fen, depth, move, n, level) ==
    [n |-> n, fen |-> fen, depth |-> depth, move |-> move, level |-> level]

NoBody == Body(Absent, Absent, Absent, Absent, Absent)

\* Values of the JSON fields.  The first set of each field is what the
\* handlers are given when requests run concurrently (Spec), the second
\* what they are given when requests run one at a time (Serial).
FenInputs == { Absent, PyStr(BadFen), PyStr(Fen1), PyStr(Fen2) }

AnyFenInputs == FenInputs \cup { PyNone, PyStr(<<>>), PyInt(7), PyList(0) }

DepthInputs == { Absent, PyInt(1) }

AnyDepthInputs ==
    { Absent, PyNone, PyList(1), PyBool(TRUE),
      PyStr(<<"7">>), PyStr(<<" ", "1", "5", " ">>), PyStr(<<"-", "2">>),
      PyStr(<<"1", "6">>), PyStr(<<"a", "b", "c">>), PyStr(<<"3", ".", "5">>),
      PyStr(<<>>),
      PyFloat(FloatScale \div 2), PyFloat(FloatScale + FloatScale \div 2),
      PyFloat(15 * FloatScale + FloatScale \div 2),
      PyFloat(16 * FloatScale) }
    \cup { PyInt(d) : d \in -1..17 }

MoveInputs == { PyStr(<<"e2e4">>) }

AnyMoveInputs == MoveInputs \cup { Absent, PyStr(<<>>) }

NInputs == { Absent, PyInt(0) }

AnyNInputs ==
    NInputs \cup { PyInt(2), PyInt(-1), PyStr(<<"2">>), PyStr(<<"a", "b", "c">>),
                   PyNone, PyList(1) }

LevelInputs == { Absent, PyInt(0), PyInt(21) }

AnyLevelInputs ==
    { Absent, PyNone, PyList(1), PyBool(TRUE),
      PyStr(<<"2", "0">>), PyStr(<<"2", "1">>), PyStr(<<"a", "b", "c">>),
      PyFloat(FloatScale \div 2), PyFloat(20 * FloatScale + FloatScale \div 2),
      PyFloat(21 * FloatScale), PyFloat(0 - FloatScale \div 2) }
    \cup { PyInt(-1), PyInt(0), PyInt(1), PyInt(20), PyInt(21) }

Bodies(fens, depths, moves, ns, levels) ==
    { Body(f, d, m, n, l) :
        f \in fens, d \in depths, m \in moves, n \in ns, l \in levels }

AnalyzeBodies == Bodies(FenInputs, DepthInputs, {Absent}, {Absent}, {Absent})

AnyAnalyzeBodies ==
    Bodies(AnyFenInputs, AnyDepthInputs, {Absent}, {Absent}, {Absent})

SkillBodies == Bodies({Absent}, {Absent}, {Absent}, {Absent}, LevelInputs)

AnySkillBodies == Bodies({Absent}, {Absent}, {Absent}, {Absent}, AnyLevelInputs)

\* the endpoints of shape validate FEN -> load position -> one query
QueryEndpoints ==
    { "/move", "/evaluation", "/win_chance", "/is_move_legal", "/top_moves" }

QueryBodies(ep) ==
    CASE ep = "/is_move_legal" ->
           Bodies(FenInputs, {Absent}, MoveInputs, {Absent}, {Absent})
      [] ep = "/top_moves" ->
           Bodies(FenInputs, {Absent}, {Absent}, NInputs, {Absent})
      [] OTHER -> Bodies(FenInputs, {Absent}, {Absent}, {Absent}, {Absent})

AnyQueryBodies(ep) ==
    CASE ep = "/is_move_legal" ->
           Bodies(AnyFenInputs, {Absent}, AnyMoveInputs, {Absent}, {Absent})
      [] ep = "/top_moves" ->
           Bodies(AnyFenInputs, {Absent}, {Absent}, AnyNInputs, {Absent})
      [] OTHER -> Bodies(AnyFenInputs, {Absent}, {Absent}, {Absent}, {Absent})

(***************************************************************************)
(* Responses.                                                              *)
(***************************************************************************)
\* jsonify({...}), status: the keys the handlers use; a key the object does
\* not carry is Absent
Response(status, success, evaluation, mate, bestmove, error, data, eval) ==
    [status |-> status, success |-> success, evaluation |-> evaluation,
     mate |-> mate, bestmove |-> bestmove, error |-> error, data |-> data,
     eval |-> eval]

NoResponse == Response(0, "", Absent, Absent, Absent, "", Absent, NoEval)

\* {"success": False, "error": error}, status
Failure(status, error) ==
    Response(status, "False", Absent, Absent, Absent, error, Absent, NoEval)

\* {"error": error}, status
Error(status, error) ==
    Response(status, "", Absent, Absent, Absent, error, Absent, NoEval)

\* Flask's answer to an exception that leaves the handler
Unhandled(exc) == Error(500, exc)

\* jsonify({key: data}) with status 200
Payload(data) == Response(200, "", Absent, Absent, Absent, "", data, NoEval)

(***************************************************************************)
(* State.                                                                  *)
(***************************************************************************)
VARIABLES
    stockfish,   \* the module global: "Stockfish", or "None" when init failed
    depth,       \* stockfish.depth
    position,    \* the position loaded in the engine
    skill,       \* the engine's skill level
    req          \* the requests being handled, one per worker

vars == <<stockfish, depth, position, skill, req>>

\* a worker with no request.  body holds what the handler still reads of the
\* request; the other fields are the handler's locals, its response, and
\* history: called (an engine operation was attempted), startDepth/endDepth
\* (stockfish.depth when analyze_position was entered and when it returned).
Idle ==
    [body |-> NoBody, evaluation |-> NoEval,
     pc |-> "idle", endpoint |-> "",
     original_depth |-> 0, valid_depth |-> 0,
     best_move |-> Absent, response |-> NoResponse,
     called |-> FALSE, startDepth |-> 0, endDepth |-> 0]

InFlight(q) == q.pc \notin {"idle", "done"}

Init ==
    /\ stockfish \in {"Stockfish", "None"}
    /\ depth = DefaultDepth
    /\ position = StartPos
    /\ skill = DefaultSkill
    /\ req = [r \in Req |-> Idle]

(***************************************************************************)
(* Bookkeeping shared by the handlers.                                     *)
(***************************************************************************)
\* worker r takes up a request and reaches q in its first step
Enter(r, q) == req' = [req EXCEPT ![r] = q]

\* the handler of q returns `response`
Return(q, response) == [q EXCEPT !.pc = "done", !.response = response]

\* q after an engine call
Called(q) == [q EXCEPT !.called = TRUE]

New(ep, body) == [Idle EXCEPT !.endpoint = ep, !.body = body]

fen(q) == Get(q.body, "fen")

(***************************************************************************)
(* GET / : index()                                                         *)
(***************************************************************************)
index(r) ==
    /\ req[r].pc = "idle"
    /\ Enter(r, Return(New("/", NoBody),
                       IF stockfish /= "None"
                       THEN Payload(PyStr(<<"Stockfish UCI server running">>))
                       ELSE Error(500, "Stockfish UCI server failed to initialize engine.")))
    /\ UNCHANGED <<stockfish, depth, position, skill>>

(***************************************************************************)
(* POST /analyze : analyze_position()                                      *)
(***************************************************************************)
\* valid_depth with the upper limit off by one
valid_depth_to_16(requested, original_depth) ==
    IF requested.kind = "none"
    THEN [exc |-> "", val |-> original_depth]
    ELSE LET requested_depth == int(requested)
         IN  CASE requested_depth.exc = "ValueError" ->
                    [exc |-> "", val |-> original_depth]
               [] requested_depth.exc = "" ->
                    IF 1 <= requested_depth.val
                       /\ requested_depth.val <= MAX_ANALYSIS_DEPTH + 1
                    THEN [exc |-> "", val |-> requested_depth.val]
                    ELSE [exc |-> "", val |-> original_depth]
               [] OTHER -> [exc |-> requested_depth.exc, val |-> 0]

\* lines 57-71: the depth to analyse with, [exc, val]
valid_depth(requested, original_depth) ==
    IF requested.kind = "none"
    THEN [exc |-> "", val |-> original_depth]
    ELSE LET requested_depth == int(requested)
         IN  CASE requested_depth.exc = "ValueError" ->
                    [exc |-> "", val |-> original_depth]
               [] requested_depth.exc = "" ->
                    IF 1 <= requested_depth.val
                       /\ requested_depth.val <= MAX_ANALYSIS_DEPTH
                    THEN [exc |-> "", val |-> requested_depth.val]
                    ELSE [exc |-> "", val |-> original_depth]
               [] OTHER -> [exc |-> requested_depth.exc, val |-> 0]

\* analyze_position from its entry in state q0 with stockfish.depth = d
\* (lines 43-71): the early answers, or the capture of the original depth
\* and the choice of the depth to use
analyze_entry(q0, d) ==
    LET q == [q0 EXCEPT !.startDepth = d, !.endDepth = d]
        v == valid_depth(Get(q.body, "depth"), d)
    IN  IF stockfish = "None"
        THEN Return(q, Failure(500, "Stockfish engine not initialized"))
        ELSE IF ~Truthy(fen(q)) \/ ~IsStr(fen(q))
        THEN Return(q, Failure(400, "FEN string ('fen') not provided or not a string"))
        ELSE IF v.exc /= ""
        THEN Return([q EXCEPT !.original_depth = d], Unhandled(v.exc))
        ELSE [q EXCEPT !.pc = "set_depth", !.endDepth = 0,
                       !.original_depth = d, !.valid_depth = v.val]

\* worker r takes up a POST /analyze; `any` tells which of the two sets of
\* inputs its body is drawn from
analyze_position_begin(r, any) ==
    /\ req[r].pc = "idle"
    /\ \E body \in (IF any THEN AnyAnalyzeBodies ELSE AnalyzeBodies) :
         Enter(r, analyze_entry(New("/analyze", body), depth))
    /\ UNCHANGED <<stockfish, depth, position, skill>>

\* lines 132-140: the response of the except branch
analyze_except == Failure(500, "Internal server error during analysis")

\* q goes on to restore the depth and then answer `response`
ThenRestore(q, response) ==
    [q EXCEPT !.pc = "restore", !.response = response]

\* lines 77-85 in state q: is_fen_valid(fen) with the given outcome
analyze_is_fen_valid(q, outcome) ==
    IF outcome = "raise" THEN ThenRestore(Called(q), analyze_except)
    ELSE IF fen(q).txt \notin ValidFens
    THEN ThenRestore(Called(q), Failure(400, "Invalid FEN string provided"))
    ELSE [Called(q) EXCEPT !.pc = "set_fen_position"]

\* line 74: stockfish.set_depth(valid_depth), then lines 77-85.  The local
\* `depth` is not read after line 71 and leaves the state here.
analyze_set_depth(r) ==
    /\ req[r].pc = "set_depth"
    /\ depth' = req[r].valid_depth
    /\ \E outcome \in Outcomes :
         req' = [req EXCEPT ![r] =
                   analyze_is_fen_valid(
                       [Called(@) EXCEPT !.body.depth = Absent],
                       outcome)]
    /\ UNCHANGED <<stockfish, position, skill>>

\* line 87: stockfish.set_fen_position(fen); a call that raises may or may
\* not have loaded the position
analyze_set_fen_position(r) ==
    /\ req[r].pc = "set_fen_position"
    /\ req[r].endpoint = "/analyze"
    /\ \/ /\ position' = fen(req[r]).txt
          /\ req' = [req EXCEPT ![r] = [@ EXCEPT !.pc = "get_evaluation"]]
       \/ /\ position' \in {position, fen(req[r]).txt}
          /\ req' = [req EXCEPT ![r] = ThenRestore(@, analyze_except)]
    /\ UNCHANGED <<stockfish, depth, skill>>

\* line 89: evaluation = stockfish.get_evaluation()
analyze_get_evaluation(r) ==
    /\ req[r].pc = "get_evaluation"
    /\ \/ \E e \in Evaluations :
            req' = [req EXCEPT ![r] =
                      [@ EXCEPT !.pc = "get_best_move", !.evaluation = e]]
       \/ req' = [req EXCEPT ![r] = ThenRestore(@, analyze_except)]
    /\ UNCHANGED <<stockfish, depth, position, skill>>

\* analyze_result with a mate value of 0 scored as +999
analyze_result_mate0(evaluation, best_move) ==
    IF ~Truthy(best_move)
    THEN Failure(500, "Stockfish could not determine a best move")
    ELSE IF evaluation.type = "cp"
    THEN Response(200, "True", PyFloat(evaluation.value * (FloatScale \div 100)),
                  PyNone, best_move, "", Absent, NoEval)
    ELSE IF evaluation.type = "mate"
    THEN Response(200, "True",
                  PyInt(IF evaluation.value >= 0 THEN 999 ELSE -999),
                  PyInt(evaluation.value), best_move, "", Absent, NoEval)
    ELSE Failure(500, "Unknown evaluation type")

\* analyze_result with the evaluation's type examined before the best move
analyze_result_type_first(evaluation, best_move) ==
    IF evaluation.type \notin {"cp", "mate"}
    THEN Failure(500, "Unknown evaluation type")
    ELSE IF ~Truthy(best_move)
    THEN Failure(500, "Stockfish could not determine a best move")
    ELSE IF evaluation.type = "cp"
    THEN Response(200, "True", PyFloat(evaluation.value * (FloatScale \div 100)),
                  PyNone, best_move, "", Absent, NoEval)
    ELSE Response(200, "True",
                  PyInt(IF evaluation.value > 0 THEN 999 ELSE -999),
                  PyInt(evaluation.value), best_move, "", Absent, NoEval)

\* lines 92-130: the response once evaluation and best move are known
analyze_result(evaluation, best_move) ==
    IF ~Truthy(best_move)
    THEN Failure(500, "Stockfish could not determine a best move")
    ELSE IF evaluation.type = "cp"
    THEN Response(200, "True", PyFloat(evaluation.value * (FloatScale \div 100)),
                  PyNone, best_move, "", Absent, NoEval)
    ELSE IF evaluation.type = "mate"
    THEN Response(200, "True",
                  PyInt(IF evaluation.value > 0 THEN 999 ELSE -999),
                  PyInt(evaluation.value), best_move, "", Absent, NoEval)
    ELSE Failure(500, "Unknown evaluation type")

\* line 90: best_move = stockfish.get_best_move(), and the choice of the
\* response (lines 92-126)
analyze_get_best_move(r) ==
    /\ req[r].pc = "get_best_move"
    /\ \/ \E m \in BestMoves :
            req' = [req EXCEPT ![r] =
                      ThenRestore([@ EXCEPT !.best_move = m],
                                  analyze_result(@.evaluation, m))]
       \/ req' = [req EXCEPT ![r] = ThenRestore(@, analyze_except)]
    /\ UNCHANGED <<stockfish, depth, position, skill>>

\* analyze_restore without line 135, the restore of the except branch
analyze_restore_not_in_except(r) ==
    /\ req[r].pc = "restore"
    /\ depth' = IF req[r].response = analyze_except
                THEN depth ELSE req[r].original_depth
    /\ req' = [req EXCEPT ![r] =
                 [Return(@, @.response) EXCEPT !.endDepth = depth']]
    /\ UNCHANGED <<stockfish, position, skill>>

\* lines 80, 95, 120, 128, 135: stockfish.set_depth(original_depth), then
\* return the response
analyze_restore(r) ==
    /\ req[r].pc = "restore"
    /\ depth' = req[r].original_depth
    /\ req' = [req EXCEPT ![r] =
                 [Return(@, @.response) EXCEPT !.endDepth = depth']]
    /\ UNCHANGED <<stockfish, position, skill>>

(***************************************************************************)
(* POST /move, /evaluation, /win_chance, /is_move_legal, /top_moves :      *)
(* get_move(), get_eval(), get_win_chance(), check_move_legal(),           *)
(* get_top_moves().  They differ in the checks before the try block and    *)
(* in the query.                                                           *)
(***************************************************************************)
\* get_top_moves, line 205: n = int(data.get("n", 3)), [exc, val]
top_moves_n(body) == int(GetDefault(body, "n", PyInt(3)))

\* `except Exception as e: return jsonify({"error": str(e)}), 500`
query_except == Error(500, "exception")

\* query_is_fen_valid with the validator's answer ignored
query_is_fen_valid_unchecked(q, outcome) ==
    IF outcome = "raise" THEN Return(Called(q), query_except)
    ELSE [Called(q) EXCEPT !.pc = "set_fen_position"]

\* stockfish.is_fen_valid(fen) in state q with the given outcome; the
\* validator is given whatever truthy value the body held: for a value that
\* is not a string it raises or answers False
query_is_fen_valid(q, outcome) ==
    IF outcome = "raise" THEN Return(Called(q), query_except)
    ELSE IF ~IsStr(fen(q)) \/ fen(q).txt \notin ValidFens
    THEN Return(Called(q), Error(400, "Invalid FEN"))
    ELSE [Called(q) EXCEPT !.pc = "set_fen_position"]

\* a query handler from its entry in state q: the engine check, the body
\* fields and their 400 answers, then is_fen_valid
query_entry(q, outcome) ==
    IF stockfish = "None"
    THEN Return(q, Error(500, "Stockfish engine not initialized"))
    ELSE IF q.endpoint = "/top_moves" /\ top_moves_n(q.body).exc /= ""
    THEN Return(q, Unhandled(top_moves_n(q.body).exc))
    ELSE IF q.endpoint = "/is_move_legal"
            /\ (~Truthy(fen(q)) \/ ~Truthy(Get(q.body, "move")))
    THEN Return(q, Error(400, "FEN or move not provided"))
    ELSE IF ~Truthy(fen(q))
    THEN Return(q, Error(400, "FEN not provided"))
    ELSE query_is_fen_valid(q, outcome)

query_begin(r, ep, any) ==
    /\ req[r].pc = "idle"
    /\ \E body \in (IF any THEN AnyQueryBodies(ep) ELSE QueryBodies(ep)),
          outcome \in Outcomes :
         Enter(r, query_entry(New(ep, body), outcome))
    /\ UNCHANGED <<stockfish, depth, position, skill>>

\* stockfish.set_fen_position(fen)
query_set_fen_position(r) ==
    /\ req[r].pc = "set_fen_position"
    /\ req[r].endpoint \in QueryEndpoints
    /\ \/ /\ position' = fen(req[r]).txt
          /\ req' = [req EXCEPT ![r] = [@ EXCEPT !.pc = "query"]]
       \/ /\ position' \in {position, fen(req[r]).txt}
          /\ req' = [req EXCEPT ![r] = Return(@, query_except)]
    /\ UNCHANGED <<stockfish, depth, skill>>

\* line 153: return jsonify({"best_move": stockfish.get_best_move()})
get_move(r) ==
    /\ req[r].pc = "query"
    /\ req[r].endpoint = "/move"
    /\ \/ \E m \in BestMoves :
            req' = [req EXCEPT ![r] =
                      Return([@ EXCEPT !.best_move = m], Payload(m))]
       \/ req' = [req EXCEPT ![r] = Return(@, query_except)]
    /\ UNCHANGED <<stockfish, depth, position, skill>>

\* line 165: return jsonify(stockfish.get_evaluation())
get_eval(r) ==
    /\ req[r].pc = "query"
    /\ req[r].endpoint = "/evaluation"
    /\ \/ \E e \in Evaluations :
            req' = [req EXCEPT ![r] =
                      Return([@ EXCEPT !.evaluation = e],
                             Response(200, "", Absent, Absent, Absent, "",
                                      Absent, e))]
       \/ req' = [req EXCEPT ![r] = Return(@, query_except)]
    /\ UNCHANGED <<stockfish, depth, position, skill>>

\* win_chance_result with a mate value of 0 counted as a win for White
win_chance_result_mate0(eval_data) ==
    IF eval_data.type = "cp"
    THEN Payload(PyFloat(cp_to_win_prob(eval_data.value)))
    ELSE IF eval_data.type = "mate"
    THEN Payload(PyFloat(IF eval_data.value >= 0 THEN FloatScale ELSE 0))
    ELSE Error(400, "Unknown evaluation type")

\* lines 178-184: the answer of /win_chance to an evaluation; round(prob, 4)
\* is the value itself in units of 1/FloatScale
win_chance_result(eval_data) ==
    IF eval_data.type = "cp"
    THEN Payload(PyFloat(cp_to_win_prob(eval_data.value)))
    ELSE IF eval_data.type = "mate"
    THEN Payload(PyFloat(IF eval_data.value > 0 THEN FloatScale ELSE 0))
    ELSE Error(400, "Unknown evaluation type")

\* lines 177-185: eval_data = stockfish.get_evaluation() and the answer
get_win_chance(r, any) ==
    /\ req[r].pc = "query"
    /\ req[r].endpoint = "/win_chance"
    /\ \/ \E e \in (IF any THEN AnyEvaluations ELSE Evaluations) :
            req' = [req EXCEPT ![r] =
                      Return([@ EXCEPT !.evaluation = e], win_chance_result(e))]
       \/ req' = [req EXCEPT ![r] = Return(@, query_except)]
    /\ UNCHANGED <<stockfish, depth, position, skill>>

\* line 197: return jsonify({"is_legal": stockfish.is_move_correct(move)})
check_move_legal(r) ==
    /\ req[r].pc = "query"
    /\ req[r].endpoint = "/is_move_legal"
    /\ \/ \E legal \in BOOLEAN :
            req' = [req EXCEPT ![r] = Return(@, Payload(PyBool(legal)))]
       \/ req' = [req EXCEPT ![r] = Return(@, query_except)]
    /\ UNCHANGED <<stockfish, depth, position, skill>>

\* line 210: return jsonify({"top_moves": stockfish.get_top_moves(n)}); the
\* engine answers with at most n moves
get_top_moves(r) ==
    /\ req[r].pc = "query"
    /\ req[r].endpoint = "/top_moves"
    /\ \/ \E k \in {0, Max(top_moves_n(req[r].body).val, 0)} :
            req' = [req EXCEPT ![r] = Return(@, Payload(PyList(k)))]
       \/ req' = [req EXCEPT ![r] = Return(@, query_except)]
    /\ UNCHANGED <<stockfish, depth, position, skill>>

(***************************************************************************)
(* POST /set_skill : set_skill_level()                                     *)
(***************************************************************************)
\* lines 217-222, 225-227: what the handler does with `level` before it
\* calls the engine: [level, status, error]; status 0 means call the engine
skill_level_check(level) ==
    IF level.kind = "none"
    THEN [level |-> 0, status |-> 400, error |-> "Skill level not provided"]
    ELSE LET parsed == int(level)
         IN  CASE parsed.exc = "ValueError" ->
                    [level |-> 0, status |-> 400,
                     error |-> "Invalid skill level format"]
               [] parsed.exc = "" ->
                    IF ~(0 <= parsed.val /\ parsed.val <= MaxSkillLevel)
                    THEN [level |-> parsed.val, status |-> 400,
                          error |-> "Skill level must be between 0 and 20"]
                    ELSE [level |-> parsed.val, status |-> 0, error |-> ""]
               [] OTHER ->
                    [level |-> 0, status |-> 500, error |-> "exception"]

\* set_skill_entry without line 215, the check of the engine
set_skill_entry_unguarded(q) ==
    LET c == skill_level_check(Get(q.body, "level"))
    IN  IF c.status /= 0
        THEN Return(q, Error(c.status, c.error))
        ELSE [q EXCEPT !.pc = "set_skill_level"]

\* set_skill_level from its entry in state q (lines 215-222)
set_skill_entry(q) ==
    LET c == skill_level_check(Get(q.body, "level"))
    IN  IF stockfish = "None"
        THEN Return(q, Error(500, "Stockfish engine not initialized"))
        ELSE IF c.status /= 0
        THEN Return(q, Error(c.status, c.error))
        ELSE [q EXCEPT !.pc = "set_skill_level"]

set_skill_level_begin(r, any) ==
    /\ req[r].pc = "idle"
    /\ \E body \in (IF any THEN AnySkillBodies ELSE SkillBodies) :
         Enter(r, set_skill_entry(New("/set_skill", body)))
    /\ UNCHANGED <<stockfish, depth, position, skill>>

\* set_skill_level with the engine's position set back to the start position
set_skill_level_new_game(r) ==
    /\ req[r].pc = "set_skill_level"
    /\ position' = StartPos
    /\ LET level == skill_level_check(Get(req[r].body, "level")).level
       IN  /\ skill' = level
           /\ req' = [req EXCEPT ![r] =
                        Return(Called(@), Payload(PyInt(level)))]
    /\ UNCHANGED <<stockfish, depth>>

\* lines 223-224: stockfish.set_skill_level(level); a call that raises may
\* or may not have changed the level
set_skill_level(r) ==
    /\ req[r].pc = "set_skill_level"
    /\ LET level == skill_level_check(Get(req[r].body, "level")).level
       IN  \/ /\ skill' = level
              /\ req' = [req EXCEPT ![r] =
                           Return(Called(@), Payload(PyInt(level)))]
           \/ /\ skill' \in {skill, level}
              /\ req' = [req EXCEPT ![r] = Return(Called(@), query_except)]
    /\ UNCHANGED <<stockfish, depth, position>>

(***************************************************************************)
(* The server.                                                             *)
(***************************************************************************)
\* the response is sent and the worker is free again
Respond(r) ==
    /\ req[r].pc = "done"
    /\ req' = [req EXCEPT ![r] = Idle]
    /\ UNCHANGED <<stockfish, depth, position, skill>>

\* the steps of the requests in flight
Step(r) ==
    \/ analyze_set_depth(r)
    \/ analyze_set_fen_position(r)
    \/ analyze_get_evaluation(r)
    \/ analyze_get_best_move(r)
    \/ analyze_restore(r)
    \/ query_set_fen_position(r)
    \/ get_move(r)
    \/ get_eval(r)
    \/ get_win_chance(r, FALSE)
    \/ check_move_legal(r)
    \/ get_top_moves(r)
    \/ set_skill_level(r)
    \/ Respond(r)

Next ==
    \E r \in Req :
        \/ index(r)
        \/ analyze_position_begin(r, FALSE)
        \/ \E ep \in QueryEndpoints : query_begin(r, ep, FALSE)
        \/ set_skill_level_begin(r, FALSE)
        \/ Step(r)

\* app.run(host='0.0.0.0', port=5000): Flask's development server handles
\* each request in a thread of its own, so the handlers run concurrently
Spec == Init /\ [][Next]_vars

(***************************************************************************)
(* Requests handled one at a time: the runs in which no two requests       *)
(* overlap.  A request may find the session with any depth that set_depth  *)
(* has been given before.                                                  *)
(***************************************************************************)
SerialInit ==
    /\ stockfish \in {"Stockfish", "None"}
    /\ depth \in 1..MAX_ANALYSIS_DEPTH
    /\ position = StartPos
    /\ skill = DefaultSkill
    /\ req = [r \in Req |-> Idle]

NoneInFlight == \A o \in Req : req[o].pc = "idle"

SerialNext ==
    \E r \in Req :
        \/ NoneInFlight /\ index(r)
        \/ NoneInFlight /\ analyze_position_begin(r, TRUE)
        \/ \E ep \in QueryEndpoints :
             NoneInFlight /\ query_begin(r, ep, TRUE)
        \/ NoneInFlight /\ set_skill_level_begin(r, TRUE)
        \/ Step(r)

Serial == SerialInit /\ [][SerialNext]_vars

(***************************************************************************)
(* POST /win_chance alone, one request at a time, with the engine's        *)
(* evaluation drawn from AnyEvaluations: the runs that exercise            *)
(* cp_to_win_prob and the mate branch over their inputs.                   *)
(***************************************************************************)
WinChanceNext ==
    \E r \in Req :
        \/ NoneInFlight /\ query_begin(r, "/win_chance", FALSE)
        \/ query_set_fen_position(r)
        \/ get_win_chance(r, TRUE)
        \/ Respond(r)

WinChance == Init /\ [][WinChanceNext]_vars

(***************************************************************************)
(* Properties.                                                             *)
(***************************************************************************)
IsAnalyze(q) == q.endpoint = "/analyze"

Done(q) == q.pc = "done"

Initialized == stockfish /= "None"

\* the FEN of q is one the engine's validator accepts
HasValidFen(q) == IsStr(fen(q)) /\ fen(q).txt \in ValidFens

\* C1: a call of /analyze that no other request overlaps leaves the
\* session's depth as it found it, whatever path it returns by (early
\* answer, success, invalid FEN, no best move, unknown evaluation type,
\* exception in an engine call).  Under Serial a finished request stays
\* alone until it is answered, so `depth` is the depth at its return.
C1_DepthRestored ==
    \A r \in Req :
        Done(req[r]) /\ IsAnalyze(req[r]) =>
            /\ req[r].endDepth = req[r].startDepth
            /\ depth = req[r].startDepth

\* C1: a call that had applied another depth and then hit an exception
C1_Witness ==
    \E r \in Req :
        /\ Done(req[r]) /\ IsAnalyze(req[r])
        /\ req[r].response = analyze_except
        /\ req[r].valid_depth /= req[r].original_depth
        /\ depth = req[r].startDepth

\* q is inside its critical section on the session: /analyze between the
\* application of its depth and the restore, the query endpoints between
\* the load of their position and the return of their query
InCriticalSection(q) ==
    \/ IsAnalyze(q)
       /\ q.pc \in {"set_fen_position", "get_evaluation", "get_best_move", "restore"}
    \/ q.endpoint \in QueryEndpoints /\ q.pc = "query"

\* C2: no two requests are inside their critical sections at once
C2_MutualExclusion ==
    \A r1, r2 \in Req :
        r1 /= r2 => ~(InCriticalSection(req[r1]) /\ InCriticalSection(req[r2]))

\* q has chosen its depth and not yet returned
Resolved(q) == IsAnalyze(q) /\ InFlight(q)

\* C3: of two concurrent /analyze requests with different resolved depths,
\* each issues get_evaluation and get_best_move with the session depth equal
\* to its own resolved depth
C3_QueriesAtOwnDepth ==
    \A r1, r2 \in Req :
        /\ r1 /= r2
        /\ Resolved(req[r1]) /\ Resolved(req[r2])
        /\ req[r1].valid_depth /= req[r2].valid_depth
        /\ req[r1].pc \in {"get_evaluation", "get_best_move"}
        => depth = req[r1].valid_depth

\* C4: whenever no request is in flight the session's depth is the startup
\* default
C4_DepthBackToDefault ==
    (Initialized /\ \A r \in Req : ~InFlight(req[r])) => depth = DefaultDepth

\* the depth the claim gives for requested depth d and session depth c
C5_Expected(d, c) ==
    IF d.kind /= "none" /\ int(d).exc = "" /\ int(d).val \in 1..15
    THEN int(d).val
    ELSE c

\* C5: the depth /analyze applies to the session is the requested depth when
\* that parses as an integer in [1, 15], and the depth the session had
\* otherwise (absent, out of range, not numeric)
C5_DepthResolution ==
    \A r \in Req :
        /\ req[r].pc = "set_depth" =>
             req[r].valid_depth =
               C5_Expected(Get(req[r].body, "depth"), req[r].original_depth)
        /\ IsAnalyze(req[r]) /\ req[r].pc = "set_fen_position" =>
             depth = req[r].valid_depth

\* C5: a text that is no number falls back to a session depth that is not
\* the startup default
C5_Witness ==
    \E r \in Req :
        /\ req[r].pc = "set_depth"
        /\ Get(req[r].body, "depth") = PyStr(<<"a", "b", "c">>)
        /\ req[r].original_depth = 8
        /\ req[r].valid_depth = 8

\* C6: no value of 'depth' fails an /analyze request that has a valid FEN:
\* the engine is queried and the handler gives one of its own answers
C6_DepthNeverFailsRequest ==
    \A r \in Req :
        Done(req[r]) /\ IsAnalyze(req[r]) /\ Initialized /\ HasValidFen(req[r]) =>
            /\ req[r].called
            /\ req[r].response.success \in {"True", "False"}

\* the level parses as an integer in [0, 20]
C7_LevelAccepted(level) ==
    level.kind /= "none" /\ int(level).exc = "" /\ int(level).val \in 0..20

\* C7: /set_skill sets the engine's skill level exactly when 'level' parses
\* as an integer in [0, 20]; any other level is answered 400 and the engine
\* is not touched
C7_SkillHardValidation ==
    \A r \in Req :
        Done(req[r]) /\ req[r].endpoint = "/set_skill" /\ Initialized =>
            LET level == Get(req[r].body, "level")
            IN  IF C7_LevelAccepted(level)
                THEN /\ req[r].called
                     /\ req[r].response.status = 200 => skill = int(level).val
                ELSE /\ req[r].response.status = 400
                     /\ ~req[r].called

\* C8: a successful /analyze result carries either a pawn-unit evaluation
\* with mate null, or the engine's mate value with evaluation +999 (mate
\* value > 0) or -999 (otherwise); a failed one carries neither
C8_ResultShape ==
    \A r \in Req :
        Done(req[r]) /\ IsAnalyze(req[r]) =>
            LET a == req[r].response
                e == req[r].evaluation
                centipawn == /\ e.type = "cp"
                             /\ a.evaluation = PyFloat(e.value * 100)
                             /\ a.mate = PyNone
                mate == /\ e.type = "mate"
                        /\ a.mate = PyInt(e.value)
                        /\ a.evaluation =
                             PyInt(IF e.value > 0 THEN 999 ELSE -999)
            IN  /\ a.success = "True" => (centipawn /\ ~mate) \/ (mate /\ ~centipawn)
                /\ a.success /= "True" => a.evaluation = Absent /\ a.mate = Absent

\* C8: a mate value of 0 is reported with evaluation -999
C8_Witness ==
    \E r \in Req :
        /\ Done(req[r]) /\ IsAnalyze(req[r])
        /\ req[r].response.success = "True"
        /\ req[r].response.mate = PyInt(0)
        /\ req[r].response.evaluation = PyInt(-999)

\* C9: once engine initialization has failed, every request to every
\* endpoint is answered 500 without an engine operation, the session is
\* never touched, and the service stays without an engine
C9_DegradedForever ==
    /\ [](stockfish = "None" =>
            /\ depth \in 1..MAX_ANALYSIS_DEPTH /\ position = StartPos
            /\ skill = DefaultSkill
            /\ \A r \in Req :
                 /\ ~InFlight(req[r]) /\ ~req[r].called
                 /\ Done(req[r]) => req[r].response.status = 500)
    /\ [][stockfish = "None" => stockfish' = "None" /\ depth' = depth]_vars

\* C9: a /set_skill request with a level in range answered 500
C9_Witness ==
    \E r \in Req :
        /\ stockfish = "None"
        /\ Done(req[r]) /\ req[r].endpoint = "/set_skill"
        /\ Get(req[r].body, "level") = PyInt(20)
        /\ req[r].response.status = 500

\* C10: /analyze and /win_chance answer 500 when the engine's evaluation has
\* a type other than cp and mate
C10_UnknownTypeIs500 ==
    \A r \in Req :
        /\ Done(req[r])
        /\ req[r].endpoint \in {"/analyze", "/win_chance"}
        /\ req[r].evaluation.type \notin {"", "cp", "mate"}
        => req[r].response.status = 500

\* the endpoints that take a FEN
FenEndpoints == QueryEndpoints \cup {"/analyze"}

\* the engine's validator answered q and rejected its FEN
FenRejected(q) ==
    /\ q.called /\ IsStr(fen(q)) /\ fen(q).txt \notin ValidFens
    /\ q.response \notin {analyze_except, query_except}

\* q carries a client input error: a missing or non-string FEN, a missing
\* move on /is_move_legal, an 'n' on /top_moves that is no integer, or a FEN
\* the validator rejected
ClientInputError(q) ==
    /\ q.endpoint \in FenEndpoints
    /\ \/ ~Truthy(fen(q)) \/ ~IsStr(fen(q))
       \/ q.endpoint = "/is_move_legal" /\ ~Truthy(Get(q.body, "move"))
       \/ q.endpoint = "/top_moves" /\ top_moves_n(q.body).exc /= ""
       \/ FenRejected(q)

\* C11: with the engine initialized, a request with a client input error is
\* answered 400, no step of it changes the loaded position or the skill
\* level, and the session's depth at its return is the depth at its entry
C11_ClientErrorsAre400 ==
    /\ [](\A r \in Req :
            Initialized /\ Done(req[r]) /\ ClientInputError(req[r]) =>
                /\ req[r].response.status = 400
                /\ IsAnalyze(req[r]) => /\ req[r].endDepth = req[r].startDepth
                                        /\ depth = req[r].startDepth)
    /\ [][\A r \in Req :
            /\ Initialized /\ req'[r] /= req[r] /\ Done(req'[r])
            /\ ClientInputError(req'[r])
            => /\ position' = position /\ skill' = skill
               /\ ~IsAnalyze(req'[r]) => depth' = depth]_vars

\* q is a /win_chance request answered from an evaluation of the given type
WinChanceOf(q, type) ==
    Done(q) /\ q.endpoint = "/win_chance" /\ q.evaluation.type = type

\* C12: cp_to_win_prob(v) is cp_to_win_prob of v clamped to [-2000, 2000]:
\* every v above 2000 gives the result of 2000, every v below -2000 that of
\* -2000; and math.exp never raises OverflowError, so the fallback of lines
\* 31-32 is never taken
C12_ClampedTransform ==
    \A r \in Req :
        WinChanceOf(req[r], "cp") =>
            LET v == req[r].evaluation.value
                prob == req[r].response.data
            IN  /\ prob = PyFloat(cp_to_win_prob(Max(-2000, Min(2000, v))))
                /\ v > 2000 => prob = PyFloat(cp_to_win_prob(2000))
                /\ v < -2000 => prob = PyFloat(cp_to_win_prob(-2000))
                /\ cp_to_win_prob_exp(v).exc = ""

\* C12: a value far below the clamp, for which math.exp of the unclamped
\* argument would overflow, answered with the result of -2000
C12_Witness ==
    \E r \in Req :
        /\ WinChanceOf(req[r], "cp")
        /\ req[r].evaluation.value = -200000
        /\ req[r].response.status = 200
        /\ req[r].response.data = PyFloat(cp_to_win_prob(-2000))
        /\ req[r].response.data.num > 0

\* C13: for a mate score of value v, /win_chance reports exactly 1.0 when
\* v > 0 and exactly 0.0 otherwise, whatever the magnitude of v
C13_MateIsCertain ==
    \A r \in Req :
        WinChanceOf(req[r], "mate") =>
            /\ req[r].response.status = 200
            /\ req[r].response.data =
                 PyFloat(IF req[r].evaluation.value > 0 THEN FloatScale ELSE 0)

\* C13: a mate value of 0 reported as 0.0
C13_Witness ==
    \E r \in Req :
        /\ WinChanceOf(req[r], "mate")
        /\ req[r].evaluation.value = 0
        /\ req[r].response.data = PyFloat(0)

\* C14: on [-2000, 2000] cp_to_win_prob does not decrease from a value to
\* the next (so it is monotonically non-decreasing: every value of the range
\* is an evaluation of WinChance), its result lies in [0.0, 1.0] for every
\* value, and cp_to_win_prob(0) is 0.5
C14_MonotoneTransform ==
    \A r \in Req :
        WinChanceOf(req[r], "cp") =>
            LET v == req[r].evaluation.value
                prob == req[r].response.data.num
            IN  /\ req[r].response.data.kind = "float"
                /\ 0 <= prob /\ prob <= FloatScale
                /\ (-2000 <= v /\ v < 2000) => prob <= cp_to_win_prob(v + 1)
                /\ (-2000 < v /\ v <= 2000) => cp_to_win_prob(v - 1) <= prob
                /\ v = 0 => prob = FloatScale \div 2

\* C14: a losing evaluation answered with a chance strictly between 0 and
\* one half
C14_Witness ==
    \E r \in Req :
        /\ WinChanceOf(req[r], "cp")
        /\ req[r].evaluation.value = -120
        /\ 0 < req[r].response.data.num
        /\ req[r].response.data.num < FloatScale \div 2

\* q has loaded its position and its next step is a query of the engine
AtQuery(q) ==
    \/ IsAnalyze(q) /\ q.pc \in {"get_evaluation", "get_best_move"}
    \/ q.endpoint \in QueryEndpoints /\ q.pc = "query"

\* C15: whenever a request is about to query the engine (get_evaluation,
\* get_best_move, is_move_correct, get_top_moves), the position loaded in
\* the engine is the one this request loaded; so no other request's
\* set_fen_position took effect since, and /analyze's evaluation and best
\* move are computed on the same position
C15_QueriesOnOwnPosition ==
    \A r \in Req : AtQuery(req[r]) => position = fen(req[r]).txt

\* q is past the validation of its FEN: about to load it, or about to query
PastValidation(q) == q.pc = "set_fen_position" \/ AtQuery(q)

\* C16: on every FEN endpoint a request gets to set_fen_position only after
\* is_fen_valid accepted its FEN, the loaded position changes only in such a
\* step and to that FEN, a request gets to its queries only through its
\* load, and evaluation and best move are obtained only from there; so a
\* request whose FEN the validator rejects loads nothing, queries nothing
\* and leaves the engine's position as it was
C16_ValidateLoadQuery ==
    /\ [](\A r \in Req :
            PastValidation(req[r]) => req[r].called /\ HasValidFen(req[r]))
    /\ [][/\ position' /= position =>
               \E r \in Req :
                   /\ req[r].pc = "set_fen_position" /\ req'[r] /= req[r]
                   /\ HasValidFen(req[r]) /\ position' = fen(req[r]).txt
          /\ \A r \in Req :
               /\ (AtQuery(req'[r]) /\ ~AtQuery(req[r])) =>
                      /\ req[r].pc = "set_fen_position"
                      /\ position' = fen(req[r]).txt
               /\ (req[r].pc /= "done"
                   /\ <<req'[r].evaluation, req'[r].best_move>>
                        /= <<req[r].evaluation, req[r].best_move>>) =>
                      AtQuery(req[r])]_vars

\* C16: a request answered with its FEN rejected, the engine still holding
\* the position an earlier request loaded
C16_Witness ==
    \E r \in Req :
        /\ Done(req[r]) /\ FenRejected(req[r])
        /\ req[r].response.status = 400
        /\ position \in ValidFens

\* C17: /analyze examines its failures in the order invalid FEN (400), no
\* best move (500), unknown evaluation type (500): a request whose FEN the
\* validator rejected is answered 400 and has queried nothing; one to which
\* the engine returned no best move fails with the no-move error whatever
\* the type of its evaluation; an unknown type fails the request only when
\* there is a best move; and each of these answers is given with the session
\* depth just set back to original_depth
C17_FailurePrecedence ==
    \A r \in Req :
        Done(req[r]) /\ IsAnalyze(req[r]) =>
            LET q == req[r]
                a == q.response
            IN  /\ FenRejected(q) =>
                     /\ a = Failure(400, "Invalid FEN string provided")
                     /\ q.evaluation = NoEval /\ q.best_move = Absent
                /\ q.best_move = PyNone =>
                     a = Failure(500, "Stockfish could not determine a best move")
                /\ (Truthy(q.best_move) /\ q.evaluation.type \notin {"cp", "mate"}) =>
                     a = Failure(500, "Unknown evaluation type")
                /\ (q.called /\ a /= analyze_except /\ a.success = "False") =>
                     q.endDepth = q.original_depth

\* C17: no best move together with an evaluation of unknown type, after a
\* depth override: the no-move error, at the original depth
C17_Witness ==
    \E r \in Req :
        /\ Done(req[r]) /\ IsAnalyze(req[r])
        /\ req[r].best_move = PyNone
        /\ req[r].evaluation.type = "lowerbound"
        /\ req[r].response.status = 500 /\ req[r].response.success = "False"
        /\ req[r].valid_depth /= req[r].original_depth
        /\ req[r].endDepth = req[r].original_depth

\* the endpoint of the request whose handler takes the step from req[r] to
\* req'[r]
StepEndpoint(r) ==
    IF req[r].pc = "idle" THEN req'[r].endpoint ELSE req[r].endpoint

\* C18: no step of /set_skill changes the loaded position or the configured
\* depth, and no step of /move, /evaluation, /win_chance, /is_move_legal and
\* /top_moves changes the configured depth or the skill level
C18_Frame ==
    [][\A r \in Req :
         req'[r] /= req[r] =>
             /\ StepEndpoint(r) = "/set_skill" =>
                    position' = position /\ depth' = depth
             /\ StepEndpoint(r) \in QueryEndpoints =>
                    depth' = depth /\ skill' = skill]_vars

\* C18: a query endpoint has loaded its position and answered, and the
\* skill level has been set, with the depth still the startup default
C18_Witness ==
    \E r \in Req :
        /\ Done(req[r]) /\ req[r].endpoint \in QueryEndpoints
        /\ req[r].response.status = 200
        /\ position = fen(req[r]).txt /\ position /= StartPos
        /\ skill = 0 /\ depth = DefaultDepth

\* C19: every query of /move, /evaluation, /win_chance and /top_moves is
\* issued with the session's depth equal to the startup default, also while
\* an /analyze request with a depth override is in flight
C19_QueriesAtDefaultDepth ==
    \A r \in Req :
        /\ req[r].endpoint \in {"/move", "/evaluation", "/win_chance", "/top_moves"}
        /\ req[r].pc = "query"
        => depth = DefaultDepth

====
